---- MODULE Spec2Model ----
(***************************************************************************)
(* A model of src/app.py (class FridayJournals): the date resolution, the  *)
(* per-page identifier extraction, and the archival pipeline               *)
(* process_journal with its persisted metadata index.                      *)
(*                                                                         *)
(* Python values are modelled as follows.  A str that the program builds   *)
(* from pieces is a sequence of its pieces (tokens); a pathlib.Path is the *)
(* sequence of its components; None is NoneValue; a dict is a function     *)
(* whose domain is the set of its keys; a list is a sequence.              *)
(***************************************************************************)
EXTENDS Integers, Sequences, FiniteSets, TLC

VARIABLES
    now,             \* SpecDate: the wall clock, [day |-> ordinal, tod |-> slot]
    friday_calls,    \* SpecDate: the calls of get_friday_date on now.day, <<tod, result>>
    pdf_in,          \* SpecPdf: the document last handed to process_pdf
    pdf_out,         \* SpecPdf: what process_pdf returned for pdf_in
    metadata_file,   \* friday_journals_data/metadata.json: its content
    excel_files,     \* the spreadsheets on disk: path |-> rows
    clock,           \* the instant datetime.now() reads at line 116
    runs,            \* per caller: the frame of its process_journal call
    served,          \* the catalogue of journals the remote site serves from
    last_saver       \* the caller whose save_metadata completed last

vars == <<now, friday_calls, pdf_in, pdf_out, metadata_file, excel_files,
          clock, runs, served, last_saver>>

-----------------------------------------------------------------------------
(* Bounds of the model.                                                    *)

MaxDays == 21        \* calendar days the wall clock runs through
MaxTod == 2          \* instants within one calendar day: 0..MaxTod
MaxPages == 3        \* pages of a document handed to process_pdf
MaxRuns == 2         \* process_journal calls in one behaviour

Callers == {"friday_job", "main"}   \* lines 240 and 288

-----------------------------------------------------------------------------
(* Python values.                                                          *)

NoneValue == << >>

\* str(x) at lines 113-114: str(None) is the text "None", str(Path) its text.
Str(x) == IF x = NoneValue THEN <<"None">> ELSE x

RECURSIVE Join(_)
\* The str whose pieces are toks, as one path component.
Join(toks) == IF toks = << >> THEN "" ELSE Head(toks) \o Join(Tail(toks))

\* s.replace(" ", "_") at lines 82 and 101.
ReplaceSpaces(toks) ==
    [i \in 1..Len(toks) |-> IF toks[i] = " " THEN "_" ELSE toks[i]]

-----------------------------------------------------------------------------
(* datetime: proleptic Gregorian ordinals, as date.toordinal().            *)

\* 23 February 2024, a Friday: date(1970, 1, 1).toordinal() plus 19776 days.
\* The days from it on cross 29 February of a leap year.
FirstDay == 719163 + 19776

\* date.weekday(): Monday is 0, Friday is 4.
Weekday(ord) == (ord + 6) % 7

\* date.fromordinal(ord) as <<year, month, day>>.
Ymd(ord) ==
    LET z == ord + 305            \* days since 0000-03-01
        era == z \div 146097
        doe == z - era * 146097
        yoe == (doe - doe \div 1460 + doe \div 36524 - doe \div 146096) \div 365
        doy == doe - (365 * yoe + yoe \div 4 - yoe \div 100)
        mp == (5 * doy + 2) \div 153
        d == doy - (153 * mp + 2) \div 5 + 1
        m == IF mp < 10 THEN mp + 3 ELSE mp - 9
        y == yoe + era * 400 + (IF m <= 2 THEN 1 ELSE 0)
    IN  <<y, m, d>>

MonthName ==
    <<"January", "February", "March", "April", "May", "June", "July",
      "August", "September", "October", "November", "December">>

Pad2(n) == IF n < 10 THEN "0" \o ToString(n) ELSE ToString(n)

\* strftime("%d %B %Y") of the date with ordinal ord, as its five pieces.
Strftime(ord) ==
    LET ymd == Ymd(ord)
    IN  <<Pad2(ymd[3]), " ", MonthName[ymd[2]], " ", ToString(ymd[1])>>

\* A faulty variant of FridayOffset: the weekday of Saturday for Friday's.
FridayOffsetSat(today) == (Weekday(today.day) - 5) % 7
\* timedelta(days=(today.weekday() - 4) % 7) at line 61, in days.
FridayOffset(today) == (Weekday(today.day) - 4) % 7

\* FridayJournals.get_friday_date, with today the value of datetime.now().
get_friday_date(today) == Strftime(today.day - FridayOffset(today))

-----------------------------------------------------------------------------
(* re.findall(r"Application No\.(\d+)\s*A", text), on a text given as its  *)
(* sequence of pieces: the label, single digits, blanks and letters.       *)

Label == "Application No."
Digits == {"0", "1", "2", "3", "4", "5", "6", "7", "8", "9"}
Blanks == {" ", "\n"}

RECURSIVE SpanEnd(_, _, _)
\* The first index >= i of text whose piece is not in class (Len+1 if none).
SpanEnd(text, i, class) ==
    IF i <= Len(text) /\ text[i] \in class THEN SpanEnd(text, i + 1, class) ELSE i

\* The pieces whose first character is the pattern's closing "A".  A label
\* whose "A" closes a match starts no match of its own: the rest of it
\* holds no "A".
StartsWithA == {"A", Label}

\* A match starting at i: <<index after the match, the captured group>>, or
\* << >> when the pattern does not match at i.  \d+ is greedy and what
\* follows it is never a digit, so no shorter capture can match.
MatchAt(text, i) ==
    IF text[i] # Label THEN << >>
    ELSE LET d == SpanEnd(text, i + 1, Digits)
             w == SpanEnd(text, d, Blanks)
         IN  IF d > i + 1 /\ w <= Len(text) /\ text[w] \in StartsWithA
             THEN <<w + 1, Join(SubSeq(text, i + 1, d - 1))>>
             ELSE << >>

RECURSIVE FindAllFrom(_, _)
FindAllFrom(text, i) ==
    IF i > Len(text) THEN << >>
    ELSE LET m == MatchAt(text, i)
         IN  IF m = << >> THEN FindAllFrom(text, i + 1)
             ELSE <<m[2]>> \o FindAllFrom(text, m[1])

findall(text) == FindAllFrom(text, 1)

-----------------------------------------------------------------------------
(* Documents.  A page is [extract_ok, text]: page.extract_text() returns   *)
(* text, or raises when extract_ok is FALSE.  A document is [readable,     *)
(* pages]: open()/PdfReader raise when readable is FALSE.                  *)

TextThree == <<Label, "1", "2", " ", "A", "\n", Label, "7", "A", Label, "1", "2", "\n", "A">>
TextOne == <<"x", Label, "4", "2", "A">>
TextWrongSuffix == <<Label, " ", "9", "9", "9", " ", "B">>
TextNoDigits == <<Label, " ", "A">>
TextBlank == << >>

Page(ok, text) == [extract_ok |-> ok, text |-> text]
BadPage == Page(FALSE, << >>)

PdfPages ==
    {Page(TRUE, t) : t \in {TextThree, TextOne, TextWrongSuffix, TextNoDigits, TextBlank}}
        \cup {BadPage}

SeqsUpTo(S, n) == UNION {[1..k -> S] : k \in 0..n}

PdfDocs ==
    {[readable |-> TRUE, pages |-> ps] : ps \in SeqsUpTo(PdfPages, MaxPages)}
        \cup {[readable |-> FALSE, pages |-> << >>]}
Doc(ps) == [readable |-> TRUE, pages |-> ps]
\* What a part of the journal may hold: pages with identifiers, pages
\* without, both in either order, and a page whose text cannot be extracted.
SiteDocs ==
    {Doc(<<Page(TRUE, TextThree)>>),
     Doc(<<Page(TRUE, TextWrongSuffix)>>),
     Doc(<<Page(TRUE, TextWrongSuffix), Page(TRUE, TextThree), Page(TRUE, TextBlank)>>),
     Doc(<<Page(TRUE, TextOne), BadPage, Page(TRUE, TextWrongSuffix)>>)}

\* A file on disk: the path it was written to and the bytes written.
File(path, doc) == [path |-> path, doc |-> doc]

-----------------------------------------------------------------------------
(* FridayJournals.process_pdf.                                             *)

\* A faulty variant of LoopBody: the unmatched page is numbered from 1.
LoopBodyOneBased(pdf_path, page_num, page, acc) ==
    LET matches == findall(page.text)
    IN  IF matches # << >>
        THEN <<acc[1] \o matches, acc[2]>>
        ELSE <<acc[1], Append(acc[2], <<pdf_path, page_num + 1>>)>>
\* Lines 178-184, one iteration of the page loop: acc is
\* <<application_numbers, pages_without_numbers>>.
LoopBody(pdf_path, page_num, page, acc) ==
    LET matches == findall(page.text)
    IN  IF matches # << >>
        THEN <<acc[1] \o matches, acc[2]>>
        ELSE <<acc[1], Append(acc[2], <<pdf_path, page_num>>)>>

RECURSIVE PageLoop(_, _, _, _)
\* Lines 177-187: the loop from page_num on; an exception raised by
\* extract_text leaves the loop and is logged at line 187.
PageLoop(pdf_path, pages, page_num, acc) ==
    IF page_num >= Len(pages) THEN acc
    ELSE IF ~pages[page_num + 1].extract_ok THEN acc
    ELSE PageLoop(pdf_path, pages, page_num + 1,
                  LoopBody(pdf_path, page_num, pages[page_num + 1], acc))

\* Returns <<application_numbers, pages_without_numbers>>.
process_pdf(file) ==
    IF ~file.doc.readable THEN << << >>, << >> >>
    ELSE PageLoop(file.path, file.doc.pages, 0, << << >>, << >> >>)

-----------------------------------------------------------------------------
(* The remote site.  A journal row is [reachable, forms]: reachable is     *)
(* FALSE when setup_chrome_driver, driver.get or the wait raise (lines     *)
(* 129-135).  A form is [raises, status_code, content]: raises when        *)
(* find_element, get_attribute or session.post raise (lines 139-144).      *)

Form(raises, status, doc) == [raises |-> raises, status_code |-> status, content |-> doc]
NoDoc == [readable |-> FALSE, pages |-> << >>]

Forms ==
    {Form(FALSE, 200, d) : d \in SiteDocs}
        \cup {Form(FALSE, 404, NoDoc), Form(TRUE, 0, NoDoc)}

\* The rows of up to two forms, a row of three, and the site out of reach.
Sites ==
    {[reachable |-> TRUE, forms |-> fs] : fs \in SeqsUpTo(Forms, 2)}
        \cup {[reachable |-> TRUE,
                forms |-> [i \in 1..3 |-> Form(FALSE, 200, Doc(<<Page(TRUE, TextThree)>>))]]}
        \cup {[reachable |-> FALSE, forms |-> << >>]}

\* The journals served while calls overlap: an unreachable site and a
\* journal of two parts.
RaceSites ==
    {[reachable |-> FALSE, forms |-> << >>],
     [reachable |-> TRUE,
      forms |-> <<Form(FALSE, 200, Doc(<<Page(TRUE, TextThree)>>)),
                  Form(FALSE, 200, Doc(<<Page(TRUE, TextWrongSuffix)>>))>>]}

\* forms[:2] at line 137.
FirstTwo(forms) == SubSeq(forms, 1, IF Len(forms) < 2 THEN Len(forms) ELSE 2)

\* A faulty variant of DownloadOne: the status code is not looked at.
DownloadOneAnyStatus(output_dir, i, form, downloaded_files) ==
    IF form.raises THEN downloaded_files
    ELSE Append(downloaded_files,
                File(output_dir \o <<"Part_" \o ToString(i) \o ".pdf">>, form.content))
\* Lines 139-154, one iteration for form number i: the new downloaded_files.
DownloadOne(output_dir, i, form, downloaded_files) ==
    IF form.raises THEN downloaded_files
    ELSE IF form.status_code = 200
         THEN Append(downloaded_files,
                     File(output_dir \o <<"Part_" \o ToString(i) \o ".pdf">>, form.content))
         ELSE downloaded_files

RECURSIVE DownloadLoop(_, _, _, _)
DownloadLoop(output_dir, forms, i, downloaded_files) ==
    IF i > Len(forms) THEN downloaded_files
    ELSE DownloadLoop(output_dir, forms, i + 1,
                      DownloadOne(output_dir, i, forms[i], downloaded_files))

\* FridayJournals.download_pdfs.
download_pdfs(output_dir, site) ==
    IF ~site.reachable THEN << >>
    ELSE DownloadLoop(output_dir, FirstTwo(site.forms), 1, << >>)

-----------------------------------------------------------------------------
(* The metadata index.  The file holds one JSON document, is empty (opened *)
(* for writing and not yet written), or holds bytes that are no JSON.      *)
(* Every value stored is a str or an int, which json.dump and json.load    *)
(* carry unchanged.                                                        *)

EmptyDict == << >>
JsonFile(data) == [kind |-> "json", data |-> data]
EmptyFile == [kind |-> "empty", data |-> EmptyDict]
CorruptFile == [kind |-> "corrupt", data |-> EmptyDict]

\* dict[key] = value.
DictSet(dict, key, value) ==
    [k \in DOMAIN dict \cup {key} |-> IF k = key THEN value ELSE dict[k]]

base_dir == <<"friday_journals_data">>

\* Line 107: the spreadsheet's path for friday_date.
ExcelPath(friday_date) ==
    base_dir \o <<"excel",
                  Join(friday_date) \o " Early and Publication after 18mo (All Jurisdiction).xlsx">>

\* Line 82: the directory of friday_date's parts.
DateDir(friday_date) == base_dir \o <<"pdfs", Join(ReplaceSpaces(friday_date))>>

\* A faulty variant of JournalRecord: the count is of distinct identifiers.
JournalRecordDistinct(date_dir, excel_path, application_numbers, stamp) ==
    [pdf_dir |-> Str(date_dir),
     excel_file |-> Str(excel_path),
     total_applications |->
        Cardinality({application_numbers[i] : i \in 1..Len(application_numbers)}),
     processed_date |-> stamp]
\* Lines 112-117: the record stored for a run.
JournalRecord(date_dir, excel_path, application_numbers, stamp) ==
    [pdf_dir |-> Str(date_dir),
     excel_file |-> Str(excel_path),
     total_applications |-> Len(application_numbers),
     processed_date |-> stamp]

-----------------------------------------------------------------------------
(* FridayJournals.process_journal.  A frame holds the locals of one call,  *)
(* pc the stage it is about to run, stages the stages it has run, site the *)
(* journal row the fetch met, before the index file as the call found it,  *)
(* and returned what the call returned ("raised": an exception left it).   *)

\* No journal row seen yet.
NoSite == [reachable |-> FALSE, forms |-> << >>]

IdleFrame ==
    [pc |-> "idle", friday_date |-> << >>, date_dir |-> << >>,
     downloaded_files |-> << >>, application_numbers |-> << >>,
     pages_without_numbers |-> << >>, output_pdf |-> NoneValue,
     excel_path |-> NoneValue, loaded |-> EmptyDict, metadata |-> EmptyDict,
     site |-> NoSite, before |-> EmptyFile, returned |-> "none", stages |-> << >>]

\* Lines 78-83, entered with the index file as found (before is kept for
\* the comparison of the index before and after the call).
Begin(today, file) ==
    LET friday_date == get_friday_date(today)
    IN  [IdleFrame EXCEPT !.pc = "FETCH", !.friday_date = friday_date,
                          !.date_dir = DateDir(friday_date), !.before = file]

\* A faulty variant of AfterFetch: the empty list is not looked for.
AfterFetchNoCheck(downloaded_files) == "EXTRACT"
\* Lines 87-88: what follows the fetch.
AfterFetch(downloaded_files) == IF downloaded_files = << >> THEN "return False" ELSE "EXTRACT"

\* Lines 86-88.
StageFetch(f, site) ==
    LET downloaded_files == download_pdfs(f.date_dir, site)
        next == AfterFetch(downloaded_files)
    IN  [f EXCEPT !.downloaded_files = downloaded_files,
                  !.site = site,
                  !.stages = Append(@, "FETCH"),
                  !.pc = IF next = "return False" THEN "done" ELSE next,
                  !.returned = IF next = "return False" THEN "False" ELSE @]

\* A faulty variant of Accumulate: each part's lists are put in front.
AccumulatePrepend(acc, pdf_file) ==
    LET r == process_pdf(pdf_file)
    IN  <<r[1] \o acc[1], r[2] \o acc[2]>>
\* Lines 95-97, for one pdf_file: acc is <<application_numbers,
\* pages_without_numbers>>.
Accumulate(acc, pdf_file) ==
    LET r == process_pdf(pdf_file)
    IN  <<acc[1] \o r[1], acc[2] \o r[2]>>

RECURSIVE ExtractLoop(_, _, _)
ExtractLoop(files, i, acc) ==
    IF i > Len(files) THEN acc
    ELSE ExtractLoop(files, i + 1, Accumulate(acc, files[i]))

\* Lines 91-97.
StageExtract(f) ==
    LET acc == ExtractLoop(f.downloaded_files, 1, << << >>, << >> >>)
    IN  [f EXCEPT !.application_numbers = acc[1],
                  !.pages_without_numbers = acc[2],
                  !.stages = Append(@, "EXTRACT"),
                  !.pc = "BUILD_UNMATCHED_PDF"]

\* reader.pages[page_num] of the file at pdf_path, among the files written.
PageOf(files, pdf_path, page_num) ==
    LET file == CHOOSE x \in {files[i] : i \in 1..Len(files)} : x.path = pdf_path
    IN  file.doc.pages[page_num + 1]

\* FridayJournals.create_pdf_without_numbers: the document written, its
\* pages in the order added, each with the place it was copied from; or
\* NoneValue when the write raises (logged at line 211).
create_pdf_without_numbers(files, pages_info, write_ok) ==
    IF ~write_ok THEN NoneValue
    ELSE [i \in 1..Len(pages_info) |->
            [source |-> pages_info[i][1], page_num |-> pages_info[i][2],
             page |-> PageOf(files, pages_info[i][1], pages_info[i][2])]]

\* Lines 100-102.
StageUnmatched(f, write_ok) ==
    IF f.pages_without_numbers # << >>
    THEN [f EXCEPT !.output_pdf = create_pdf_without_numbers(
                                      f.downloaded_files, f.pages_without_numbers, write_ok),
                   !.stages = Append(@, "BUILD_UNMATCHED_PDF"),
                   !.pc = "BUILD_SPREADSHEET"]
    ELSE [f EXCEPT !.pc = "BUILD_SPREADSHEET"]

\* FridayJournals.create_excel: what it returns.
create_excel(application_numbers, output_path, write_ok) ==
    IF write_ok THEN output_path ELSE NoneValue

\* Line 217: the spreadsheets on disk after df.to_excel; a write that raises
\* leaves them as they were.
ExcelWrite(files, application_numbers, output_path, write_ok) ==
    IF write_ok THEN DictSet(files, output_path, application_numbers) ELSE files

\* Lines 105-108.
StageExcel(f, write_ok) ==
    [f EXCEPT !.excel_path = create_excel(f.application_numbers,
                                          ExcelPath(f.friday_date), write_ok),
              !.stages = Append(@, "BUILD_SPREADSHEET"),
              !.pc = "UPDATE_INDEX"]

\* A faulty variant of Updated: the loaded dict is not the one updated.
UpdatedFresh(f, stamp) ==
    DictSet(EmptyDict, f.friday_date,
            JournalRecord(f.date_dir, f.excel_path, f.application_numbers, stamp))
\* The dict save_metadata is given at line 118.
Updated(f, stamp) ==
    DictSet(f.loaded, f.friday_date,
            JournalRecord(f.date_dir, f.excel_path, f.application_numbers, stamp))

\* FridayJournals.load_metadata, on a file that holds a JSON document.
load_metadata(file) == file.data

\* Line 111: json.load raises on a file that holds no JSON document, and
\* the exception leaves process_journal.
StageLoad(f, file) ==
    IF file.kind = "json"
    THEN [f EXCEPT !.loaded = load_metadata(file), !.stages = Append(@, "UPDATE_INDEX"),
                   !.pc = "MODIFY"]
    ELSE [f EXCEPT !.stages = Append(@, "UPDATE_INDEX"),
                   !.pc = "done", !.returned = "raised"]

\* Lines 112-117.
StageModify(f, stamp) ==
    [f EXCEPT !.metadata = Updated(f, stamp), !.pc = "SAVE_OPEN"]

\* Line 66, open(self.metadata_file, 'w'): the file is truncated.
StageSaveOpen(f) == [f EXCEPT !.pc = "SAVE_DUMP"]

\* Line 67 and the close of the file: the document is written from offset
\* 0.  Over a file another writer has filled since the truncation the
\* result is the new document when it is at least as long (overlay_ok),
\* and otherwise the new document followed by the rest of the other.
DumpResult(f, file, overlay_ok) ==
    IF file.kind = "empty" \/ overlay_ok THEN JsonFile(f.metadata) ELSE CorruptFile

\* A variant of StageSaveDump that returns False when no identifier was found.
StageSaveDumpStrict(f) ==
    [f EXCEPT !.pc = "done",
              !.returned = IF f.application_numbers = << >> THEN "False" ELSE "True"]
\* Lines 118-120: save_metadata returns and process_journal returns True.
StageSaveDump(f) == [f EXCEPT !.pc = "done", !.returned = "True"]

-----------------------------------------------------------------------------
(* One stage of a call.  w is [frame, metadata_file, excel_files,          *)
(* last_saver]; env is what the stage reads from outside the program:      *)
(* the journal served, whether each write succeeds, and the clock.         *)

Step(w, env) ==
    LET f == w.frame
    IN  CASE f.pc = "FETCH" -> [w EXCEPT !.frame = StageFetch(f, env.site)]
          [] f.pc = "EXTRACT" -> [w EXCEPT !.frame = StageExtract(f)]
          [] f.pc = "BUILD_UNMATCHED_PDF" ->
                [w EXCEPT !.frame = StageUnmatched(f, env.pdf_ok)]
          [] f.pc = "BUILD_SPREADSHEET" ->
                [w EXCEPT !.frame = StageExcel(f, env.excel_ok),
                          !.excel_files = ExcelWrite(@, f.application_numbers,
                                                     ExcelPath(f.friday_date), env.excel_ok)]
          [] f.pc = "UPDATE_INDEX" -> [w EXCEPT !.frame = StageLoad(f, w.metadata_file)]
          [] f.pc = "MODIFY" -> [w EXCEPT !.frame = StageModify(f, env.stamp)]
          [] f.pc = "SAVE_OPEN" ->
                [w EXCEPT !.frame = StageSaveOpen(f), !.metadata_file = EmptyFile]
          [] f.pc = "SAVE_DUMP" ->
                [w EXCEPT !.frame = StageSaveDump(f),
                          !.metadata_file = DumpResult(f, @, env.overlay_ok),
                          !.last_saver = env.caller]
          [] OTHER -> w

RECURSIVE RunToEnd(_, _)
\* A call run from its current stage to its return, nothing else running.
RunToEnd(w, env) == IF w.frame.pc = "done" THEN w ELSE RunToEnd(Step(w, env), env)

World(p) ==
    [frame |-> runs[p], metadata_file |-> metadata_file,
     excel_files |-> excel_files, last_saver |-> last_saver]

Env(p, site, pdf_ok, excel_ok, overlay_ok, stamp) ==
    [caller |-> p, site |-> site, pdf_ok |-> pdf_ok, excel_ok |-> excel_ok,
     overlay_ok |-> overlay_ok, stamp |-> stamp]

\* The days process_journal is called on: the Thursday and the Friday of
\* one week, which resolve to two different journals.
RunInstants == {[day |-> FirstDay + 6, tod |-> 0], [day |-> FirstDay + 7, tod |-> 0]}

\* The journals of the catalogue in use.
Served == IF served = "RaceSites" THEN RaceSites ELSE Sites

\* Whether a write of an artifact succeeds; overlapping calls are studied
\* on a disk whose artifact writes succeed.
WriteOutcomes == IF served = "RaceSites" THEN {TRUE} ELSE BOOLEAN

\* What the stage at pc reads from outside the program.
EnvsFor(p, pc, stamp) ==
    CASE pc = "FETCH" -> {Env(p, site, TRUE, TRUE, TRUE, stamp) : site \in Served}
      [] pc = "BUILD_UNMATCHED_PDF" ->
            {Env(p, CHOOSE site \in Served : TRUE, ok, TRUE, TRUE, stamp) : ok \in WriteOutcomes}
      [] pc = "BUILD_SPREADSHEET" ->
            {Env(p, CHOOSE site \in Served : TRUE, TRUE, ok, TRUE, stamp) : ok \in WriteOutcomes}
      [] pc = "SAVE_DUMP" ->
            {Env(p, CHOOSE site \in Served : TRUE, TRUE, TRUE, ok, stamp) : ok \in BOOLEAN}
      [] OTHER -> {Env(p, CHOOSE site \in Served : TRUE, TRUE, TRUE, TRUE, stamp)}

\* The caller of the calls that do not overlap.
SeqCallers == {"main"}

PdfPath == <<"document.pdf">>
NoCaller == "nobody"

-----------------------------------------------------------------------------
(* Initial states.  FridayJournals.__init__ leaves an index file holding   *)
(* {} when none exists (lines 41-43).                                      *)

InitDateVars ==
    /\ now = [day |-> FirstDay, tod |-> 0]
    /\ friday_calls = {}

InitPdfVars ==
    /\ pdf_in = File(PdfPath, NoDoc)
    /\ pdf_out = << >>

InitJournalVars ==
    /\ metadata_file = JsonFile(EmptyDict)
    /\ excel_files = EmptyDict
    /\ clock = 0
    /\ runs = [p \in Callers |-> IdleFrame]
    /\ last_saver = NoCaller

Init == InitDateVars /\ InitPdfVars /\ InitJournalVars /\ served = "Sites"
InitRace == InitDateVars /\ InitPdfVars /\ InitJournalVars /\ served = "RaceSites"

dateVars == <<now, friday_calls>>
pdfVars == <<pdf_in, pdf_out>>
journalVars == <<metadata_file, excel_files, clock, runs, served, last_saver>>

-----------------------------------------------------------------------------
(* Actions.                                                                *)

\* The wall clock moves to the next instant.
Tick ==
    /\ \/ /\ now.tod < MaxTod
          /\ now' = [now EXCEPT !.tod = @ + 1]
          /\ UNCHANGED friday_calls
       \/ /\ now.tod = MaxTod
          /\ now.day < FirstDay + MaxDays
          /\ now' = [day |-> now.day + 1, tod |-> 0]
          /\ friday_calls' = {}
    /\ UNCHANGED <<pdfVars, journalVars>>

\* A call of get_friday_date.
CallGetFridayDate ==
    /\ friday_calls' = friday_calls \cup {<<now.tod, get_friday_date(now)>>}
    /\ UNCHANGED <<now, pdfVars, journalVars>>

\* The result of the last call of process_pdf is dropped.
ForgetPdf ==
    /\ pdf_out # << >>
    /\ pdf_in' = File(PdfPath, NoDoc)
    /\ pdf_out' = << >>
    /\ UNCHANGED <<dateVars, journalVars>>

\* A call of process_pdf on a file of the disk.
CallProcessPdf ==
    /\ pdf_out = << >>
    /\ \E doc \in PdfDocs :
          /\ pdf_in' = File(PdfPath, doc)
          /\ pdf_out' = process_pdf(File(PdfPath, doc))
    /\ UNCHANGED <<dateVars, journalVars>>

\* A whole call of process_journal by caller p, no other call running.
ProcessJournal(p) ==
    /\ \A q \in Callers : runs[q].pc = "idle"
    /\ clock < MaxRuns
    /\ \E today \in RunInstants, site \in Served, pdf_ok \in BOOLEAN, excel_ok \in BOOLEAN :
          \E w \in {RunToEnd([World(p) EXCEPT !.frame = Begin(today, metadata_file)],
                              Env(p, site, pdf_ok, excel_ok, TRUE, clock + 1))} :
             /\ runs' = [runs EXCEPT ![p] = w.frame]
             /\ metadata_file' = w.metadata_file
             /\ excel_files' = w.excel_files
             /\ last_saver' = w.last_saver
    /\ clock' = clock + 1
    /\ UNCHANGED <<dateVars, pdfVars, served>>

\* Caller p enters process_journal (lines 78-83).
Start(p) ==
    /\ runs[p].pc = "idle"
    /\ clock < MaxRuns
    /\ \E today \in RunInstants :
          runs' = [runs EXCEPT ![p] = Begin(today, metadata_file)]
    /\ clock' = clock + 1
    /\ UNCHANGED <<dateVars, pdfVars, metadata_file, excel_files, served, last_saver>>

\* Caller p runs the next stage of its call.
Stage(p) ==
    /\ runs[p].pc \notin {"idle", "done"}
    /\ \E env \in EnvsFor(p, runs[p].pc, clock) :
          \E w \in {Step(World(p), env)} :
             /\ runs' = [runs EXCEPT ![p] = w.frame]
             /\ metadata_file' = w.metadata_file
             /\ excel_files' = w.excel_files
             /\ last_saver' = w.last_saver
    /\ UNCHANGED <<dateVars, pdfVars, clock, served>>

\* The call of p has returned and its frame is gone.
Return(p) ==
    /\ runs[p].pc = "done"
    /\ runs' = [runs EXCEPT ![p] = IdleFrame]
    /\ UNCHANGED <<dateVars, pdfVars, metadata_file, excel_files, clock, served, last_saver>>

-----------------------------------------------------------------------------
(* Specifications.                                                         *)

\* Calls of process_journal that do not overlap.
Next == \E p \in SeqCallers : ProcessJournal(p) \/ Return(p)
Spec == Init /\ [][Next]_vars

\* Calls of process_journal by the two callers, stage by stage, overlapping.
NextRace == \E p \in Callers : Start(p) \/ Stage(p) \/ Return(p)
SpecRace == InitRace /\ [][NextRace]_vars

\* get_friday_date called at any instant.
NextDate == Tick \/ CallGetFridayDate
SpecDate == Init /\ [][NextDate]_vars

\* process_pdf called on any document.
NextPdf == CallProcessPdf \/ ForgetPdf
SpecPdf == Init /\ [][NextPdf]_vars

-----------------------------------------------------------------------------
(* Properties of get_friday_date, under SpecDate.                          *)

\* The ordinal of the date a "%d %B %Y" string names (datetime.strptime).
DateOrdinal(str) ==
    LET d == CHOOSE n \in 1..31 : Pad2(n) = str[1]
        m == CHOOSE n \in 1..12 : MonthName[n] = str[3]
        y == CHOOSE n \in 1970..2100 : ToString(n) = str[5]
        yy == IF m <= 2 THEN y - 1 ELSE y
        era == yy \div 400
        yoe == yy - era * 400
        doy == (153 * (IF m > 2 THEN m - 3 ELSE m + 9) + 2) \div 5 + d - 1
        doe == yoe * 365 + yoe \div 4 - yoe \div 100 + doy
    IN  era * 146097 + doe - 305

\* C7: every string get_friday_date returns names a Friday that is on or
\* before today and at most 6 days before it, names today when today is a
\* Friday, and is the same for all calls made on one calendar day.
C7_MostRecentFriday ==
    /\ \A c \in friday_calls :
          LET friday == DateOrdinal(c[2])
          IN  /\ Weekday(friday) = 4
              /\ friday <= now.day
              /\ now.day - friday <= 6
              /\ Weekday(now.day) = 4 => friday = now.day
    /\ \A c1, c2 \in friday_calls : c1[2] = c2[2]

\* Two calls at different instants of a Friday in March: one week after the
\* first day and in the month after it.
C7_Witness ==
    /\ Weekday(now.day) = 4
    /\ Ymd(now.day)[2] = 3
    /\ \E c1, c2 \in friday_calls : c1[1] # c2[1]

-----------------------------------------------------------------------------
(* Properties of process_pdf, under SpecPdf.                               *)

PdfCalled == pdf_out # << >>
PdfPageCount == Len(pdf_in.doc.pages)
\* The page with zero-based index i.
PdfPage(i) == pdf_in.doc.pages[i + 1]
Occurrences(seq, x) == Cardinality({j \in 1..Len(seq) : seq[j] = x})

RECURSIVE Flatten(_)
Flatten(seqs) == IF seqs = << >> THEN << >> ELSE Head(seqs) \o Flatten(Tail(seqs))

\* C3: when the text extraction of exactly one page k fails, page k is in
\* the unmatched list, every other page without matches is in it too, and
\* the identifiers are those of all the other pages, in page order.
C3_PageFailureIsScopedToThePage ==
    (/\ PdfCalled
     /\ pdf_in.doc.readable
     /\ Cardinality({k \in 0..PdfPageCount - 1 : ~PdfPage(k).extract_ok}) = 1)
    => /\ \A i \in 0..PdfPageCount - 1 :
             (~PdfPage(i).extract_ok \/ findall(PdfPage(i).text) = << >>)
                <=> Occurrences(pdf_out[2], <<pdf_in.path, i>>) = 1
       /\ pdf_out[1] =
             Flatten([j \in 1..PdfPageCount |->
                        IF PdfPage(j - 1).extract_ok
                        THEN findall(PdfPage(j - 1).text) ELSE << >>])

\* C4: for a document whose pages all extract, page i is in the unmatched
\* list once when it has no match and not at all when it has one, the list
\* names no other page and is in page order; and when every one of its
\* N >= 1 pages has a match there are at least N identifiers and no
\* unmatched page.
C4_UnmatchedIffNoMatch ==
    (/\ PdfCalled
     /\ pdf_in.doc.readable
     /\ \A i \in 0..PdfPageCount - 1 : PdfPage(i).extract_ok)
    => /\ \A i \in 0..PdfPageCount - 1 :
             Occurrences(pdf_out[2], <<pdf_in.path, i>>) =
                IF findall(PdfPage(i).text) = << >> THEN 1 ELSE 0
       /\ \A j \in 1..Len(pdf_out[2]) :
             /\ pdf_out[2][j][1] = pdf_in.path
             /\ pdf_out[2][j][2] \in 0..PdfPageCount - 1
             /\ j > 1 => pdf_out[2][j - 1][2] < pdf_out[2][j][2]
       /\ (/\ PdfPageCount >= 1
           /\ \A i \in 0..PdfPageCount - 1 : findall(PdfPage(i).text) # << >>)
          => /\ Len(pdf_out[1]) >= PdfPageCount
             /\ pdf_out[2] = << >>

\* A document of three readable pages: the first with matches, the second
\* and the third without.
C4_Witness ==
    /\ PdfCalled
    /\ pdf_in.doc.readable
    /\ PdfPageCount = 3
    /\ \A i \in 0..2 : PdfPage(i).extract_ok
    /\ findall(PdfPage(0).text) # << >>
    /\ pdf_out[2] = <<<<pdf_in.path, 1>>, <<pdf_in.path, 2>>>>

-----------------------------------------------------------------------------
(* Properties of process_journal, under Spec: calls that do not overlap.   *)

\* The frame of the call that has returned, when one has.
Call == runs["main"]
Returned == Call.pc = "done"

\* Whether the index file is a JSON document with an entry for key.
HasEntry(file, key) == file.kind = "json" /\ key \in DOMAIN file.data

\* C1: a call whose fetch yields no part returns failure, runs no stage
\* after the fetch, and leaves the index file as it found it.
C1_NoPartsNoUpdate ==
    (Returned /\ Call.downloaded_files = << >>)
    => /\ Call.returned = "False"
       /\ Call.stages = <<"FETCH">>
       /\ metadata_file = Call.before

\* A call that fetched nothing, started on an index that has an entry.
C1_Witness ==
    /\ Returned
    /\ Call.downloaded_files = << >>
    /\ Call.before.kind = "json"
    /\ DOMAIN Call.before.data # {}

\* C2, as claimed: a call returns success only if the accumulated
\* identifier list is not empty.
C2_SuccessOnlyWithIdentifiers ==
    (Returned /\ Call.returned = "True") => Call.application_numbers # << >>

\* C2, amended: a call that returns returns success exactly when at least
\* one part was fetched, whatever the number of identifiers; with none it
\* stores a record whose count is 0.
C2_SuccessIffFetched ==
    (Returned /\ Call.returned # "raised")
    => /\ Call.returned = "True" <=> Call.downloaded_files # << >>
       /\ Call.returned = "True"
             => /\ HasEntry(metadata_file, Call.friday_date)
                /\ metadata_file.data[Call.friday_date].total_applications =
                      Len(Call.application_numbers)

\* Parts were fetched, no identifier was found, and the call returned True.
C2_Witness ==
    /\ Returned
    /\ Call.downloaded_files # << >>
    /\ Call.application_numbers = << >>
    /\ Call.returned = "True"
    /\ metadata_file.data[Call.friday_date].total_applications = 0

\* What process_pdf returns for each part fetched.
PartResults == [i \in 1..Len(Call.downloaded_files) |-> process_pdf(Call.downloaded_files[i])]
\* The position of the part a path names, in the order fetched.
PartIndex(path) ==
    CHOOSE i \in 1..Len(Call.downloaded_files) : Call.downloaded_files[i].path = path
UnmatchedWritten == Call.output_pdf # NoneValue

\* The general half of C5: the identifier list is the parts' identifier
\* lists one after the other in part order, and the unmatched-page
\* document, when written, holds the parts' unmatched pages one part after
\* the other, each page once, in page order within a part, each a copy of
\* the page it names.
C5_General ==
    /\ Call.application_numbers = Flatten([i \in 1..Len(PartResults) |-> PartResults[i][1]])
    /\ Call.pages_without_numbers = Flatten([i \in 1..Len(PartResults) |-> PartResults[i][2]])
    /\ UnmatchedWritten
          => /\ Len(Call.output_pdf) = Len(Call.pages_without_numbers)
             /\ \A j \in 1..Len(Call.output_pdf) :
                   LET pg == Call.output_pdf[j]
                   IN  /\ <<pg.source, pg.page_num>> = Call.pages_without_numbers[j]
                       /\ pg.page =
                             Call.downloaded_files[PartIndex(pg.source)].doc.pages[pg.page_num + 1]
                       /\ findall(pg.page.text) = << >>
                       /\ j > 1 =>
                             LET prev == Call.output_pdf[j - 1]
                             IN  \/ PartIndex(prev.source) < PartIndex(pg.source)
                                 \/ /\ prev.source = pg.source
                                    /\ prev.page_num < pg.page_num

\* Two parts fetched, the first with 3 identifiers and the second with none.
ThreeAndNone ==
    /\ Len(Call.downloaded_files) = 2
    /\ Len(PartResults[1][1]) = 3
    /\ PartResults[2][1] = << >>

\* C5, as claimed: as C5_General, and with 3 identifiers in part 1 and none
\* in part 2 the list is part 1's 3 identifiers and the unmatched-page
\* document holds pages of part 2 only.
C5_AccumulationAsClaimed ==
    (Returned /\ Call.returned = "True")
    => /\ C5_General
       /\ (ThreeAndNone /\ UnmatchedWritten)
          => /\ Call.application_numbers = PartResults[1][1]
             /\ \A j \in 1..Len(Call.output_pdf) :
                   Call.output_pdf[j].source = Call.downloaded_files[2].path

\* C5, amended: as C5_General, and with 3 identifiers in part 1 and none in
\* part 2 the list is part 1's 3 identifiers, and the unmatched-page
\* document holds pages of part 2 only when part 1 has no unmatched page.
C5_Accumulation ==
    (Returned /\ Call.returned = "True")
    => /\ C5_General
       /\ (ThreeAndNone /\ UnmatchedWritten)
          => /\ Call.application_numbers = PartResults[1][1]
             /\ PartResults[1][2] = << >>
                   => \A j \in 1..Len(Call.output_pdf) :
                         Call.output_pdf[j].source = Call.downloaded_files[2].path

\* Part 1 is one page with 3 identifiers, one of them twice; part 2 has
\* none; the unmatched-page document was written.
C5_Witness ==
    /\ Returned
    /\ Call.returned = "True"
    /\ ThreeAndNone
    /\ PartResults[1][2] = << >>
    /\ UnmatchedWritten
    /\ Call.application_numbers = <<"12", "7", "12">>

\* C6: a call for date D that reaches the index update leaves the index
\* with the entries it found, those of dates other than D unchanged and
\* none removed, and reloading it gives for D the directory path, the
\* spreadsheet path and the identifier count of the call, as stored.
C6_OnlyOwnEntryChanges ==
    (Returned /\ "UPDATE_INDEX" \in {Call.stages[i] : i \in 1..Len(Call.stages)})
    => /\ metadata_file.kind = "json"
       /\ Call.before.kind = "json"
       /\ LET reloaded == load_metadata(metadata_file)
              found == load_metadata(Call.before)
          IN  /\ DOMAIN reloaded = DOMAIN found \cup {Call.friday_date}
              /\ \A k \in DOMAIN found : k # Call.friday_date => reloaded[k] = found[k]
              /\ reloaded[Call.friday_date].pdf_dir = Str(DateDir(Call.friday_date))
              /\ reloaded[Call.friday_date].excel_file = Str(Call.excel_path)
              /\ reloaded[Call.friday_date].total_applications =
                    Len(Flatten([i \in 1..Len(PartResults) |-> PartResults[i][1]]))
              /\ reloaded[Call.friday_date].processed_date = clock

\* A call updated the index for one date on an index that held another
\* date's entry, with identifiers found and the spreadsheet written.
C6_Witness ==
    /\ Returned
    /\ Call.returned = "True"
    /\ Call.application_numbers # << >>
    /\ Call.excel_path # NoneValue
    /\ \E k \in DOMAIN Call.before.data : k # Call.friday_date
    /\ Cardinality(DOMAIN metadata_file.data) = 2

\* The forms whose part the fetch asks for.
Asked(site) == FirstTwo(site.forms)
PartFailed(form) == form.raises \/ form.status_code # 200
\* A transport failure met during the fetch.
TransportFailure(site) ==
    \/ ~site.reachable
    \/ \E i \in 1..Len(Asked(site)) : PartFailed(Asked(site)[i])
\* No part could be fetched.
NothingFetched(site) ==
    \/ ~site.reachable
    \/ \A i \in 1..Len(Asked(site)) : PartFailed(Asked(site)[i])

\* C8, as claimed: a call that met a transport failure leaves the index
\* file as it found it.
C8_TransportFailureAborts ==
    (Returned /\ TransportFailure(Call.site)) => metadata_file = Call.before

\* C8, amended: a call that met a transport failure leaves the index file
\* as it found it and returns failure when no part could be fetched; when
\* one part failed and the other was fetched it goes on with the part
\* fetched, stores the entry of its date and returns success.
C8_AbortsOnlyWhenNothingFetched ==
    (Returned /\ TransportFailure(Call.site))
    => IF NothingFetched(Call.site)
       THEN /\ metadata_file = Call.before
            /\ Call.returned = "False"
            /\ Call.stages = <<"FETCH">>
       ELSE /\ Len(Call.downloaded_files) = 1
            /\ Call.returned = "True"
            /\ HasEntry(metadata_file, Call.friday_date)
            /\ metadata_file.data[Call.friday_date].processed_date = clock

\* Part 1 was fetched, the request for part 2 was answered 404, and the
\* index has the entry of the call.
C8_Witness ==
    /\ Returned
    /\ Len(Call.site.forms) = 2
    /\ ~PartFailed(Call.site.forms[1])
    /\ Call.site.forms[2].status_code = 404
    /\ Call.returned = "True"
    /\ metadata_file # Call.before

\* C10: every record of the index names a spreadsheet that is on disk,
\* and its count is the number of rows of that spreadsheet.
C10_RecordsNameWrittenSpreadsheets ==
    metadata_file.kind = "json"
    => \A k \in DOMAIN metadata_file.data :
          LET r == metadata_file.data[k]
          IN  /\ r.excel_file \in DOMAIN excel_files
              /\ Len(excel_files[r.excel_file]) = r.total_applications

-----------------------------------------------------------------------------
(* Properties of overlapping calls, under SpecRace.                        *)

\* C9: the index update is an unlocked load, modify and rewrite of the
\* whole file.  The file a call has just rewritten holds, for every date
\* but the call's own, what the call loaded and nothing else: an entry
\* another call stored between the load and the rewrite is gone.
C9_RewriteKeepsOnlyWhatWasLoaded ==
    \A q \in Callers :
       (/\ last_saver = q
        /\ runs[q].pc = "done"
        /\ runs[q].returned = "True"
        /\ metadata_file.kind = "json")
       => /\ DOMAIN metadata_file.data = DOMAIN runs[q].loaded \cup {runs[q].friday_date}
          /\ \A k \in DOMAIN runs[q].loaded :
                k # runs[q].friday_date => metadata_file.data[k] = runs[q].loaded[k]

\* The lost update: both calls returned success, for different dates, and
\* the index holds the entry of one of them only.
C9_Witness ==
    /\ \A q \in Callers : runs[q].pc = "done" /\ runs[q].returned = "True"
    /\ runs["friday_job"].friday_date # runs["main"].friday_date
    /\ metadata_file.kind = "json"
    /\ Cardinality(DOMAIN metadata_file.data) = 1

====
